---- MODULE Spec2Model ----
(***************************************************************************)
(* Model of tensorflow/python/framework/subscribe.py: the recursive        *)
(* structure traversal (_recursive_apply), the control-output reverse      *)
(* index (_ControlOutputCache) and the node splice (_subscribe), driven by *)
(* the public entry point subscribe().                                     *)
(*                                                                         *)
(* The graph is the default graph.  Its operations are 1..nops in creation *)
(* order (graph.get_operations()).  Every operation has one output, so a   *)
(* tensor is named by the operation that owns it (tensor_op).  Python      *)
(* list positions are 0-based; the model's sequences are 1-based.          *)
(***************************************************************************)
EXTENDS Naturals, Sequences, FiniteSets, TLC

VARIABLES
  py3,            \* TRUE: the interpreter is Python 3 (dict has no iteritems)
  nops,           \* number of operations of the graph
  op_type,        \* op -> "Op" | "PyFunc" | "Summary" | "Identity"
  inputs,         \* op -> its data inputs, a list of tensors
  control_inputs, \* op -> its _control_inputs, a list of ops
  hist,           \* the subscribe() calls made so far, oldest first
  cc,             \* .cache of a _ControlOutputCache instance held by a caller
  qres            \* the last get_control_outputs() made on that instance

vars == <<py3, nops, op_type, inputs, control_inputs, hist, cc, qres>>

(***************************************************************************)
(* Bounds of the model.                                                    *)
(***************************************************************************)
MaxUserOps == 3
MaxInputs == 2
MaxOps == 8
MaxCalls == 2

(***************************************************************************)
(* Sequence helpers (Python list operations).                              *)
(***************************************************************************)
Range(s) == {s[i] : i \in 1..Len(s)}

Count(s, x) == Cardinality({i \in 1..Len(s) : s[i] = x})

\* list.index(x): the first position holding x.
index(s, x) == CHOOSE i \in 1..Len(s) : s[i] = x /\ \A j \in 1..(i - 1) : s[j] # x

\* list.remove(x): drops the first occurrence of x (the caller checks x is there).
remove(s, x) ==
  LET i == index(s, x)
  IN  [j \in 1..(Len(s) - 1) |-> IF j < i THEN s[j] ELSE s[j + 1]]

RECURSIVE SortedSeq(_)
SortedSeq(S) ==
  IF S = {} THEN <<>>
  ELSE LET m == CHOOSE x \in S : \A y \in S : x <= y
       IN  <<m>> \o SortedSeq(S \ {m})

RECURSIVE Dedup(_)
\* the first occurrence of every member, in order
Dedup(s) ==
  IF s = <<>> THEN <<>>
  ELSE LET r == Dedup(SubSeq(s, 1, Len(s) - 1))
       IN  IF s[Len(s)] \in Range(r) THEN r ELSE Append(r, s[Len(s)])

(***************************************************************************)
(* The graph collaborator (tensorflow.python.framework.ops).               *)
(***************************************************************************)
DefaultGraph == "graph"

op_graph(op) == DefaultGraph

tensor_op(tensor) == tensor

Ops(st) == 1..st.nops

\* Tensor.consumers(): the consuming op once per slot that reads the tensor.
RECURSIVE consumers_from(_, _, _)
consumers_from(st, tensor, c) ==
  IF c > st.nops THEN <<>>
  ELSE [i \in 1..Count(st.inputs[c], tensor) |-> c] \o consumers_from(st, tensor, c + 1)

consumers(st, tensor) == consumers_from(st, tensor, 1)

\* Operation.__init__: a new op at the end of graph.get_operations().
create_op(st, type, ins, ctl) ==
  LET n == st.nops + 1
  IN  [st EXCEPT !.nops = n,
                 !.op_type = @ @@ (n :> type),
                 !.inputs = @ @@ (n :> ins),
                 !.control_inputs = @ @@ (n :> ctl)]

\* Operation._update_input(index, tensor)
_update_input(st, op, i, tensor) == [st EXCEPT !.inputs[op][i] = tensor]

\* identity without the control_dependencies(outs) of line 122.
identity_ungated(st, tensor, outs) == create_op(st, "Identity", <<tensor>>, <<>>)

\* ops.control_dependencies(outs) around array_ops.identity(tensor): the
\* controller keeps each op once, and an op the new node already reads from
\* is not added as a control input.
identity(st, tensor, outs) ==
  LET deps == Dedup(outs)
      keep == {i \in 1..Len(deps) : deps[i] # tensor_op(tensor)}
      ctl == [j \in 1..Cardinality(keep) |->
                deps[CHOOSE i \in keep : Cardinality({k \in keep : k < i}) = j - 1]]
  IN  create_op(st, "Identity", <<tensor>>, ctl)

(***************************************************************************)
(* _ControlOutputCache                                                     *)
(***************************************************************************)
EmptyCache == [g \in {} |-> 0]

RECURSIVE calc_control_inputs_overwrite(_, _, _, _)
\* calc_control_inputs with `control_outputs[control_input] = set([op])` for
\* the add: each op replaces the dependents found before it.
calc_control_inputs_overwrite(ctl, i, op, control_outputs) ==
  IF i > Len(ctl) THEN control_outputs
  ELSE LET control_input == ctl[i]
           co1 == IF control_input \notin DOMAIN control_outputs
                  THEN control_outputs @@ (control_input :> {})
                  ELSE control_outputs
           co2 == [co1 EXCEPT ![control_input] = {op}]
       IN  calc_control_inputs_overwrite(ctl, i + 1, op, co2)

RECURSIVE calc_control_inputs(_, _, _, _)
\* lines 76-79: the inner loop over op.control_inputs[i..]
calc_control_inputs(ctl, i, op, control_outputs) ==
  IF i > Len(ctl) THEN control_outputs
  ELSE LET control_input == ctl[i]
           co1 == IF control_input \notin DOMAIN control_outputs
                  THEN control_outputs @@ (control_input :> {})
                  ELSE control_outputs
           co2 == [co1 EXCEPT ![control_input] = @ \cup {op}]
       IN  calc_control_inputs(ctl, i + 1, op, co2)

RECURSIVE calc_ops(_, _, _)
\* lines 75-79: the outer loop over graph.get_operations()[op..]
calc_ops(st, op, control_outputs) ==
  IF op > st.nops THEN control_outputs
  ELSE calc_ops(st, op + 1,
                calc_control_inputs(st.control_inputs[op], 1, op, control_outputs))

calc_control_outputs(st) == calc_ops(st, 1, [k \in {} |-> {}])

\* control_outputs.get(op, [])
dict_get(control_outputs, op) ==
  IF op \in DOMAIN control_outputs THEN control_outputs[op] ELSE {}

\* get_control_outputs without the test of line 90: every query scans the
\* graph again and stores the new map.
get_control_outputs_rescan(st, cache, op) ==
  LET control_outputs == calc_control_outputs(st)
      others == [g \in DOMAIN cache \ {op_graph(op)} |-> cache[g]]
  IN  [cache |-> others @@ (op_graph(op) :> control_outputs),
       result |-> dict_get(control_outputs, op),
       scanned |-> TRUE]

\* get_control_outputs answering from the graph as it is now: the map is
\* stored at the first query, but the control inputs are read at each query.
get_control_outputs_live(st, cache, op) ==
  IF op_graph(op) \notin DOMAIN cache
  THEN LET control_outputs == calc_control_outputs(st)
       IN  [cache |-> cache @@ (op_graph(op) :> control_outputs),
            result |-> dict_get(control_outputs, op),
            scanned |-> TRUE]
  ELSE [cache |-> cache,
        result |-> {d \in Ops(st) : op \in Range(st.control_inputs[d])},
        scanned |-> FALSE]

\* get_control_outputs on the cache `cache`; returns the updated cache, the
\* answer, and whether the graph was scanned.
get_control_outputs(st, cache, op) ==
  IF op_graph(op) \notin DOMAIN cache
  THEN LET control_outputs == calc_control_outputs(st)
       IN  [cache |-> cache @@ (op_graph(op) :> control_outputs),
            result |-> dict_get(control_outputs, op),
            scanned |-> TRUE]
  ELSE [cache |-> cache,
        result |-> dict_get(cache[op_graph(op)], op),
        scanned |-> FALSE]

(***************************************************************************)
(* Python values handed to subscribe(): a structure of tensors.  `type` is *)
(* type(tensors); a dict is kept with its keys in sorted order, keys[i]    *)
(* mapping to items[i]; IntValue is a value of an unsupported type.        *)
(***************************************************************************)
Tensor(t) == [type |-> "Tensor", t |-> t, items |-> <<>>, keys |-> <<>>]

List(items) == [type |-> "list", t |-> 0, items |-> items, keys |-> <<>>]

Tuple(items) == [type |-> "tuple", t |-> 0, items |-> items, keys |-> <<>>]

NamedTuple(items) == [type |-> "namedtuple", t |-> 0, items |-> items, keys |-> <<>>]

Dict(keys, items) == [type |-> "dict", t |-> 0, items |-> items, keys |-> keys]

IntValue == [type |-> "int", t |-> 5, items |-> <<>>, keys |-> <<>>]

NoneValue == [type |-> "NoneType", t |-> 0, items |-> <<>>, keys |-> <<>>]

(***************************************************************************)
(* Exceptions.  value/vtype are the two %r arguments of the TypeError      *)
(* message; for SideEffectError, value is the tensor the function was      *)
(* given and fn the function that raised.                                  *)
(***************************************************************************)
NoFn == [kind |-> "none", on |-> 0]

NoError == [exc |-> "none", value |-> NoneValue, vtype |-> "", fn |-> NoFn]

TypeError(value) == [exc |-> "TypeError", value |-> value, vtype |-> value.type, fn |-> NoFn]

ValueError == [exc |-> "ValueError", value |-> NoneValue, vtype |-> "", fn |-> NoFn]

AttributeError == [exc |-> "AttributeError", value |-> NoneValue, vtype |-> "", fn |-> NoFn]

SideEffectError(s, tensor) ==
  [exc |-> "SideEffectError", value |-> Tensor(tensor), vtype |-> "", fn |-> s]

(***************************************************************************)
(* Side-effect functions, supplied by the caller.  One builds one new op   *)
(* that reads the tensor and returns it as the only dependency.  FailOn(t) *)
(* does the same, except that it raises when it is given tensor t.         *)
(* Summary is a second function like One whose op is of another type, so   *)
(* that the op one function built can be told from the op another built.   *)
(***************************************************************************)
One == [kind |-> "one", on |-> 0]

Summary == [kind |-> "summary", on |-> 0]

\* The type of the op a side-effect function builds.
built_type(s) == IF s.kind = "summary" THEN "Summary" ELSE "PyFunc"

FailOn(t) == [kind |-> "fail", on |-> t]

\* s(tensor)
call_side_effect(st, s, tensor) ==
  IF s.kind = "fail" /\ s.on = tensor
  THEN [st |-> [st EXCEPT !.err = SideEffectError(s, tensor)], ret |-> <<>>]
  ELSE LET st1 == create_op(st, built_type(s), <<tensor>>, <<>>)
       IN  [st |-> st1, ret |-> <<st1.nops>>]

(***************************************************************************)
(* _subscribe                                                              *)
(***************************************************************************)
RECURSIVE side_effect_outs_overwrite(_, _, _, _, _)
\* side_effect_outs with `outs = s(tensor)` for the `+=` of line 120.
side_effect_outs_overwrite(st, side_effects, i, tensor, outs) ==
  IF i > Len(side_effects) THEN [st |-> st, outs |-> outs, invoked |-> i - 1]
  ELSE LET r == call_side_effect(st, side_effects[i], tensor)
       IN  IF r.st.err # NoError
           THEN [st |-> r.st, outs |-> outs, invoked |-> i]
           ELSE side_effect_outs_overwrite(r.st, side_effects, i + 1, tensor, r.ret)

RECURSIVE side_effect_outs_reversed(_, _, _, _, _)
\* side_effect_outs going through side_effects from the last function to the
\* first.
side_effect_outs_reversed(st, side_effects, i, tensor, outs) ==
  IF i > Len(side_effects) THEN [st |-> st, outs |-> outs, invoked |-> i - 1]
  ELSE LET r == call_side_effect(st, side_effects[Len(side_effects) + 1 - i], tensor)
       IN  IF r.st.err # NoError
           THEN [st |-> r.st, outs |-> outs, invoked |-> i]
           ELSE side_effect_outs_reversed(r.st, side_effects, i + 1, tensor,
                                          outs \o r.ret)

RECURSIVE side_effect_outs(_, _, _, _, _)
\* lines 118-120: outs += s(tensor) for s in side_effects[i..]
side_effect_outs(st, side_effects, i, tensor, outs) ==
  IF i > Len(side_effects) THEN [st |-> st, outs |-> outs, invoked |-> i - 1]
  ELSE LET r == call_side_effect(st, side_effects[i], tensor)
       IN  IF r.st.err # NoError
           THEN [st |-> r.st, outs |-> outs, invoked |-> i]
           ELSE side_effect_outs(r.st, side_effects, i + 1, tensor, outs \o r.ret)

\* update_inputs with the loop of lines 125-126 left out.
update_inputs_skipped(st, update_input, i, out) == st

\* update_inputs going over tensor.consumers() as it is when the loop runs,
\* not over the copy made at lines 109-111: every slot reading the tensor
\* that `out` reads is rewritten, those of the ops built since included.
update_inputs_live(st, update_input, i, out) ==
  LET tensor == st.inputs[out][1]
  IN  [st EXCEPT !.inputs =
         [c \in DOMAIN st.inputs |->
            [k \in DOMAIN st.inputs[c] |->
               IF st.inputs[c][k] = tensor THEN out ELSE st.inputs[c][k]]]]

RECURSIVE update_inputs_all_slots(_, _, _, _)
\* update_inputs rewriting every input of a captured consumer_op, not only
\* the slot captured with it.
update_inputs_all_slots(st, update_input, i, out) ==
  IF i > Len(update_input) THEN st
  ELSE LET consumer_op == update_input[i][1]
           st1 == [st EXCEPT !.inputs[consumer_op] =
                     [k \in DOMAIN st.inputs[consumer_op] |-> out]]
       IN  update_inputs_all_slots(st1, update_input, i + 1, out)

RECURSIVE update_inputs(_, _, _, _)
\* lines 125-126
update_inputs(st, update_input, i, out) ==
  IF i > Len(update_input) THEN st
  ELSE update_inputs(_update_input(st, update_input[i][1], update_input[i][2], out),
                     update_input, i + 1, out)

\* update_control_input_of without the remove() of line 129.
update_control_input_of_append_only(st, consumer_op, tensor, out) ==
  [st EXCEPT !.control_inputs[consumer_op] = Append(@, tensor_op(out))]

\* lines 129-130 for one consumer_op; list.remove raises ValueError when the
\* op is not in the list.
update_control_input_of(st, consumer_op, tensor, out) ==
  IF tensor_op(tensor) \notin Range(st.control_inputs[consumer_op])
  THEN [st EXCEPT !.err = ValueError]
  ELSE [st EXCEPT !.control_inputs[consumer_op] =
                     Append(remove(@, tensor_op(tensor)), tensor_op(out))]

\* `for consumer_op in update_control_input` (line 128): the order in which
\* the set kept in the cache for op yields its members.  A Python set is
\* iterated in the order of its hash table, which the program does not
\* decide: st.order.set gives, for every set the call can be handed, the
\* order chosen for this run.  (A set st.order.set has no order for is taken
\* lowest op first.)
set_iteration(st, op, update_control_input) ==
  IF op \in DOMAIN st.order.set /\ Range(st.order.set[op]) = update_control_input
  THEN st.order.set[op]
  ELSE SortedSeq(update_control_input)

RECURSIVE update_control_inputs(_, _, _, _)
\* lines 128-131, over the ops still to do, in the order of iteration; the
\* loop ends at the first remove() that raises
update_control_inputs(st, todo, tensor, out) ==
  IF todo = <<>> \/ st.err # NoError THEN st
  ELSE LET consumer_op == Head(todo)
       IN  update_control_inputs(update_control_input_of(st, consumer_op, tensor, out),
                                 Tail(todo), tensor, out)

\* The graph part of a state record.
Graph(st) ==
  [nops |-> st.nops, op_type |-> st.op_type, inputs |-> st.inputs,
   control_inputs |-> st.control_inputs]

\* One record of st.log per splice: what _subscribe captured, built and left.
LogEntry(st, tensor, update_input, update_control_input, scanned, se, out, stage) ==
  [tensor |-> tensor, update_input |-> update_input,
   update_control_input |-> update_control_input, scanned |-> scanned,
   invoked |-> se.invoked, outs |-> se.outs, out |-> out, stage |-> stage,
   post |-> Graph(st)]

\* _subscribe that builds the pass-through op and rewires the consumers and
\* the control dependents first, and only then runs the side-effect
\* functions and gates the pass-through op on what they return.
_subscribe_rewire_first(st, tensor, side_effects) ==
  LET cons == consumers(st, tensor)
      update_input == [i \in 1..Len(cons) |->
                         <<cons[i], index(st.inputs[cons[i]], tensor)>>]
      q == get_control_outputs(st, st.cache, tensor_op(tensor))
      update_control_input == q.result
      st1 == [st EXCEPT !.cache = q.cache,
                        !.nscan = @ + (IF q.scanned THEN 1 ELSE 0)]
      st2 == identity(st1, tensor, <<>>)
      out == st2.nops
      st3 == update_inputs(st2, update_input, 1, out)
      st4 == update_control_inputs(st3,
               set_iteration(st, tensor_op(tensor), update_control_input),
               tensor, out)
      none == [st |-> st4, outs |-> <<>>, invoked |-> 0]
      se == side_effect_outs(st4, side_effects, 1, tensor, <<>>)
      st5 == [se.st EXCEPT !.control_inputs[out] = Dedup(se.outs)]
      logged(s, r, o, stage) ==
        [s EXCEPT !.log = Append(@, LogEntry(s, tensor, update_input,
                                   update_control_input, q.scanned, r, o, stage))]
  IN  IF st4.err # NoError
      THEN [st |-> logged(st4, none, 0, "control_inputs"), out |-> 0]
      ELSE IF se.st.err # NoError
      THEN [st |-> logged(se.st, se, 0, "side_effects"), out |-> 0]
      ELSE [st |-> logged(st5, se, out, "done"), out |-> out]

\* _subscribe(tensor, side_effects, control_cache); the cache is st.cache.
\* Returns the state it leaves and the tensor it returns (0 when it raised).
_subscribe(st, tensor, side_effects) ==
  LET cons == consumers(st, tensor)
      update_input == [i \in 1..Len(cons) |->
                         <<cons[i], index(st.inputs[cons[i]], tensor)>>]
      q == get_control_outputs(st, st.cache, tensor_op(tensor))
      update_control_input == q.result
      st1 == [st EXCEPT !.cache = q.cache,
                        !.nscan = @ + (IF q.scanned THEN 1 ELSE 0)]
      se == side_effect_outs(st1, side_effects, 1, tensor, <<>>)
      st2 == identity(se.st, tensor, se.outs)
      out == st2.nops
      st3 == update_inputs(st2, update_input, 1, out)
      st4 == update_control_inputs(st3,
               set_iteration(st, tensor_op(tensor), update_control_input),
               tensor, out)
      logged(s, o, stage) ==
        [s EXCEPT !.log = Append(@, LogEntry(s, tensor, update_input,
                                   update_control_input, q.scanned, se, o, stage))]
  IN  IF se.st.err # NoError
      THEN [st |-> logged(se.st, 0, "side_effects"), out |-> 0]
      ELSE IF st4.err # NoError
      THEN [st |-> logged(st4, 0, "control_inputs"), out |-> 0]
      ELSE [st |-> logged(st4, out, "done"), out |-> out]

(***************************************************************************)
(* _recursive_apply, with apply_fn = lambda t: _subscribe(t, side_effects, *)
(* control_outputs).  An exception in flight is st.err; the value returned *)
(* is then NoneValue (nothing is returned).  `path` is the place of the    *)
(* value in the structure handed to subscribe: the positions taken from    *)
(* the top, in sorted-key numbering for a dict.                            *)
(***************************************************************************)
\* `for t in tensors` (line 46): a list or tuple yields its elements in order.
list_order(n) == [i \in 1..n |-> i]

\* tensors.iteritems() (line 54): the order in which the dict at `path`
\* yields its keys, as positions of the sorted keys.  A Python 2 dict is
\* iterated in the order of its hash table, which the program does not
\* decide: st.order.dict gives, for every dict of the structure, the order
\* chosen for this run.
iteritems_order(st, path) == st.order.dict[path]

RECURSIVE _recursive_apply(_, _, _, _)
RECURSIVE apply_each(_, _, _, _, _, _, _)
\* the comprehensions of lines 46 and 53-54: the elements items[order[i..]]
\* in turn, until one raises
apply_each(st, items, order, i, side_effects, path, acc) ==
  IF i > Len(order) \/ st.err # NoError THEN [st |-> st, vals |-> acc]
  ELSE LET r == _recursive_apply(st, items[order[i]], side_effects,
                                 Append(path, order[i]))
       IN  apply_each(r.st, items, order, i + 1, side_effects, path,
                      Append(acc, r.val))

_recursive_apply(st, tensors, side_effects, path) ==
  LET tensors_type == tensors.type
  IN  IF tensors_type = "Tensor"
      THEN LET r == _subscribe(st, tensors.t, side_effects)
           IN  [st |-> r.st,
                val |-> IF r.st.err = NoError THEN Tensor(r.out) ELSE NoneValue]
      ELSE IF tensors_type \in {"list", "tuple", "namedtuple"}
      THEN LET r == apply_each(st, tensors.items,
                               list_order(Len(tensors.items)), 1,
                               side_effects, path, <<>>)
           IN  [st |-> r.st,
                val |-> IF r.st.err # NoError THEN NoneValue
                        ELSE IF tensors_type = "list" THEN List(r.vals)
                        ELSE IF tensors_type = "tuple" THEN Tuple(r.vals)
                        ELSE NamedTuple(r.vals)]
      ELSE IF tensors_type = "dict"
      THEN IF st.py3
           THEN [st |-> [st EXCEPT !.err = AttributeError], val |-> NoneValue]
           ELSE LET order == iteritems_order(st, path)
                    r == apply_each(st, tensors.items, order, 1,
                                    side_effects, path, <<>>)
                    \* dict([(k, v), ...]): the value found for keys[i]
                    at(i) == r.vals[CHOOSE j \in 1..Len(order) : order[j] = i]
                IN  [st |-> r.st,
                     val |-> IF r.st.err # NoError THEN NoneValue
                             ELSE Dict(tensors.keys,
                                       [i \in 1..Len(tensors.items) |-> at(i)])]
      ELSE [st |-> [st EXCEPT !.err = TypeError(tensors)], val |-> NoneValue]

(***************************************************************************)
(* subscribe                                                               *)
(***************************************************************************)
\* The side_effects argument: one function, or a list of functions.
Function(f) == [type |-> "function", f |-> f, items |-> <<>>]

FunctionList(fs) == [type |-> "list", f |-> NoFn, items |-> fs]

\* hasattr(side_effects, '__iter__')
has_iter(side_effects) == side_effects.type = "list"

\* normalize_side_effects without the wrapping of line 169.
normalize_side_effects_unwrapped(side_effects) == side_effects.items

\* lines 168-169
normalize_side_effects(side_effects) ==
  IF ~has_iter(side_effects) THEN <<side_effects.f>> ELSE side_effects.items

\* CallState with a _ControlOutputCache that outlives the call: a call after
\* the first starts with the cache the call before it left.
CallState_kept(g, interp3, order) ==
  [py3 |-> interp3, order |-> order, nops |-> g.nops, op_type |-> g.op_type,
   inputs |-> g.inputs, control_inputs |-> g.control_inputs,
   cache |-> IF hist = <<>> THEN EmptyCache ELSE hist[Len(hist)].cache,
   nscan |-> 0, log |-> <<>>, err |-> NoError]

\* The state a call starts in: the graph as it is, a new _ControlOutputCache;
\* `order` is the iteration order of the dicts and sets of this run.
CallState(g, interp3, order) ==
  [py3 |-> interp3, order |-> order, nops |-> g.nops, op_type |-> g.op_type,
   inputs |-> g.inputs, control_inputs |-> g.control_inputs,
   cache |-> EmptyCache, nscan |-> 0, log |-> <<>>, err |-> NoError]

\* subscribe that puts the graph back as it was when the call raises.
subscribe_rollback(g, interp3, tensors, side_effects, order) ==
  LET applied == normalize_side_effects(side_effects)
      r == _recursive_apply(CallState(g, interp3, order), tensors, applied, <<>>)
      st == IF r.st.err = NoError THEN r.st
            ELSE [r.st EXCEPT !.nops = g.nops, !.op_type = g.op_type,
                              !.inputs = g.inputs,
                              !.control_inputs = g.control_inputs]
  IN  [st |-> st,
       call |-> [tensors |-> tensors, side_effects |-> side_effects,
                 applied |-> applied, order |-> order, pre |-> g,
                 status |-> IF r.st.err = NoError THEN "returned" ELSE "raised",
                 err |-> r.st.err, result |-> r.val, log |-> r.st.log,
                 cache |-> r.st.cache, nscan |-> r.st.nscan]]

\* subscribe(tensors, side_effects) on graph g; returns the state it leaves
\* and the record of the call.
subscribe(g, interp3, tensors, side_effects, order) ==
  LET applied == normalize_side_effects(side_effects)
      r == _recursive_apply(CallState(g, interp3, order), tensors, applied, <<>>)
  IN  [st |-> r.st,
       call |-> [tensors |-> tensors, side_effects |-> side_effects,
                 applied |-> applied, order |-> order, pre |-> g,
                 status |-> IF r.st.err = NoError THEN "returned" ELSE "raised",
                 err |-> r.st.err, result |-> r.val, log |-> r.st.log,
                 cache |-> r.st.cache, nscan |-> r.st.nscan]]

(***************************************************************************)
(* The state machine.                                                      *)
(***************************************************************************)
CurrentGraph ==
  [nops |-> nops, op_type |-> op_type, inputs |-> inputs,
   control_inputs |-> control_inputs]

NoQuery == [op |-> 0, fresh |-> FALSE, result |-> {}]

Init ==
  /\ py3 \in BOOLEAN
  /\ nops = 0
  /\ op_type = <<>>
  /\ inputs = <<>>
  /\ control_inputs = <<>>
  /\ hist = <<>>
  /\ cc = EmptyCache
  /\ qres = NoQuery

\* The input lists and control-input lists a caller can give a new op: up to
\* MaxInputs tensors of the graph, and control dependencies on ops it does
\* not already read from.
InputLists == UNION {[1..k -> 1..nops] : k \in 0..MaxInputs}

ControlLists(ins) == {SortedSeq(S) : S \in SUBSET ((1..nops) \ Range(ins))}

\* The caller adds an op to the graph (the graph is built before it is
\* subscribed to).
CreateOp ==
  /\ nops < MaxUserOps
  /\ hist = <<>>
  /\ \E ins \in InputLists : \E ctl \in ControlLists(ins) :
       LET st == create_op(CurrentGraph, "Op", ins, ctl)
       IN  /\ nops' = st.nops
           /\ op_type' = st.op_type
           /\ inputs' = st.inputs
           /\ control_inputs' = st.control_inputs
  /\ qres' = NoQuery
  /\ UNCHANGED <<py3, hist, cc>>

\* The structures a caller can pass: a tensor, the four containers over two
\* tensors, nested containers (a dict in a dict among them), and structures
\* holding an unsupported value.
Pairs == {<<a, b>> : a \in 1..nops, b \in 1..nops}

PairsFrom1 == {p \in Pairs : p[1] = 1}

Structures ==
  {Tensor(a) : a \in 1..nops}
  \cup {List(<<Tensor(p[1]), Tensor(p[2])>>) : p \in Pairs}
  \cup {Tuple(<<Tensor(p[1]), Tensor(p[2])>>) : p \in PairsFrom1}
  \cup {NamedTuple(<<Tensor(p[1]), Tensor(p[2])>>) : p \in PairsFrom1}
  \cup {Dict(<<"a", "b">>, <<Tensor(p[1]), Tensor(p[2])>>) : p \in PairsFrom1}
  \cup {List(<<Tensor(p[1]), Tuple(<<Tensor(p[2])>>)>>) : p \in PairsFrom1}
  \cup {Dict(<<"a">>, <<List(<<Tensor(p[1]), Tensor(p[2])>>)>>) : p \in PairsFrom1}
  \cup {Dict(<<"b", "c">>, <<Tensor(p[1]),
                             Dict(<<"a", "b">>, <<Tensor(p[2]), Tensor(p[1])>>)>>)
          : p \in PairsFrom1}
  \cup {IntValue, Dict(<<"a">>, <<IntValue>>)}
  \cup {List(<<Tensor(a), IntValue>>) : a \in 1..nops}
  \cup {List(<<Tensor(p[1]), Tuple(<<Tensor(p[2]), IntValue>>)>>) : p \in PairsFrom1}

RECURSIVE LeafTensors(_)
\* the tensors of a structure, one entry per occurrence, in sorted-key order
LeafTensors(tensors) ==
  IF tensors.type = "Tensor" THEN <<tensors.t>>
  ELSE IF tensors.items = <<>> THEN <<>>
  ELSE LeafTensors([tensors EXCEPT !.items = SubSeq(@, 1, Len(@) - 1)])
       \o LeafTensors(tensors.items[Len(tensors.items)])

\* The side_effects arguments a caller can pass with a structure.
SideEffects(tensors) ==
  {Function(One), FunctionList(<<>>), FunctionList(<<One, One>>),
   FunctionList(<<Summary, One>>)}
  \cup {Function(FailOn(t)) : t \in Range(LeafTensors(tensors))}
  \cup {FunctionList(<<One, FailOn(t)>>) : t \in Range(LeafTensors(tensors))}

RECURSIVE DictPaths(_, _)
\* The places of the dicts of a structure, `path` being the place of
\* `tensors` itself.
DictPaths(tensors, path) ==
  (IF tensors.type = "dict" THEN {path} ELSE {})
  \cup UNION {DictPaths(tensors.items[i], Append(path, i)) : i \in 1..Len(tensors.items)}

RECURSIVE ValueAt(_, _)
\* The value at a place of a structure.
ValueAt(tensors, path) ==
  IF path = <<>> THEN tensors ELSE ValueAt(tensors.items[Head(path)], Tail(path))

\* The orders in which a collection S can yield its members.
OrdersOf(S) == {s \in [1..Cardinality(S) -> S] : Range(s) = S}

\* Every dict of the structure can yield its keys in any order, each dict in
\* an order of its own.
DictOrders(tensors) ==
  LET P == DictPaths(tensors, <<>>)
      n(p) == Len(ValueAt(tensors, p).items)
  IN  {f \in [P -> UNION {OrdersOf(1..n(p)) : p \in P}] :
         \A p \in P : Len(f[p]) = n(p)}

\* The sets a call on graph g can be handed by its cache are the sets of
\* dependents of the ops of its leaves in g; each can yield its members in
\* any order.
SetOrders(g, tensors) ==
  LET L == {tensor_op(t) : t \in Range(LeafTensors(tensors))}
      deps(op) == dict_get(calc_control_outputs(g), op)
  IN  {f \in [L -> UNION {OrdersOf(deps(op)) : op \in L}] :
         \A op \in L : Range(f[op]) = deps(op) /\ Len(f[op]) = Cardinality(deps(op))}

\* The iteration orders a run of subscribe(tensors, ...) on graph g can meet.
IterOrders(g, tensors) ==
  {[dict |-> d, set |-> s] : d \in DictOrders(tensors), s \in SetOrders(g, tensors)}

\* A call of subscribe(tensors, side_effects).  A caller makes one call with
\* any structure, or up to MaxCalls calls with one tensor each.  The graph
\* must have room for the ops the call can create: per leaf, one per
\* function and the identity.
Subscribe ==
  /\ Len(hist) < MaxCalls
  /\ \E tensors \in Structures : \E side_effects \in SideEffects(tensors) :
       /\ hist # <<>> => tensors.type = "Tensor" /\ hist[1].tensors.type = "Tensor"
       /\ nops + Len(LeafTensors(tensors))
                   * (Len(normalize_side_effects(side_effects)) + 1) <= MaxOps
       /\ \E order \in IterOrders(CurrentGraph, tensors) :
          \E r \in {subscribe(CurrentGraph, py3, tensors, side_effects, order)} :
            /\ nops' = r.st.nops
            /\ op_type' = r.st.op_type
            /\ inputs' = r.st.inputs
            /\ control_inputs' = r.st.control_inputs
            /\ hist' = Append(hist, r.call)
  /\ qres' = NoQuery
  /\ UNCHANGED <<py3, cc>>

\* A caller asks its own _ControlOutputCache instance for the control
\* outputs of an op.
GetControlOutputs ==
  /\ \E op \in 1..nops :
       \E q \in {get_control_outputs(CurrentGraph, cc, op)} :
         /\ cc' = q.cache
         /\ qres' = [op |-> op, fresh |-> DOMAIN cc = {}, result |-> q.result]
  /\ UNCHANGED <<py3, nops, op_type, inputs, control_inputs, hist>>

\* _ControlOutputCache(): the caller replaces its instance by a new one.
NewCache ==
  /\ DOMAIN cc # {}
  /\ cc' = EmptyCache
  /\ qres' = NoQuery
  /\ UNCHANGED <<py3, nops, op_type, inputs, control_inputs, hist>>

Next == CreateOp \/ Subscribe

Spec == Init /\ [][Next]_vars

NextCache == CreateOp \/ GetControlOutputs \/ NewCache

SpecCache == Init /\ [][NextCache]_vars

(***************************************************************************)
(* Properties.                                                             *)
(***************************************************************************)
\* The latest subscribe() call; the graph it left is the current graph.
Last == hist[Len(hist)]

\* The call passed one tensor and returned.
SingleReturned(call) == call.tensors.type = "Tensor" /\ call.status = "returned"

\* No function of the call raises on a tensor of its structure.
NoFailingSideEffect(call) ==
  \A i \in 1..Len(call.applied) :
    call.applied[i].kind = "fail" => call.applied[i].on \notin Range(LeafTensors(call.tensors))

\* The ops that read tensor h in graph g.
ConsumersIn(g, h) == {c \in 1..g.nops : h \in Range(g.inputs[c])}

\* The ops that hold op as a control input in graph g.
DependentsIn(g, op) == {d \in 1..g.nops : op \in Range(g.control_inputs[d])}

\* C1: after subscribe(h, fns) returns on a single tensor h, every op that
\* read h before the call reads the returned tensor on every slot where it
\* read h, and reads h on no slot.
C1_ConsumersRewiredOnEverySlot ==
  (hist # <<>> /\ SingleReturned(Last)) =>
    LET h == Last.tensors.t
        out == Last.result.t
    IN  \A c \in ConsumersIn(Last.pre, h) :
          /\ \A i \in 1..Len(inputs[c]) : Last.pre.inputs[c][i] = h => inputs[c][i] = out
          /\ h \notin Range(inputs[c])

\* C2: after subscribe(h, fns) returns on a single tensor h, every op d that
\* held h's op as a control input before the call holds the returned tensor's
\* op instead, and keeps its other control inputs.
C2_ControlDependentsRewired ==
  (hist # <<>> /\ SingleReturned(Last)) =>
    LET h == Last.tensors.t
        out == Last.result.t
    IN  \A d \in DependentsIn(Last.pre, tensor_op(h)) :
          /\ tensor_op(h) \notin Range(control_inputs[d])
          /\ tensor_op(out) \in Range(control_inputs[d])
          /\ Range(control_inputs[d])
               = (Range(Last.pre.control_inputs[d]) \ {tensor_op(h)}) \cup {tensor_op(out)}

\* A single-tensor call returned whose tensor had a control dependent with
\* another control input as well.
C2_Witness ==
  /\ hist # <<>>
  /\ SingleReturned(Last)
  /\ \E d \in DependentsIn(Last.pre, tensor_op(Last.tensors.t)) :
       Len(Last.pre.control_inputs[d]) = 2

\* C7: on a new cache, get_control_outputs(n) is exactly the set of ops that
\* hold n as a control input (empty when there is none).
C7_FreshCacheAnswersExactly ==
  (qres.op # 0 /\ qres.fresh) =>
    qres.result = DependentsIn(CurrentGraph, qres.op)

\* A new cache answered with two dependents for an op.
C7_Witness == qres.op # 0 /\ qres.fresh /\ Cardinality(qres.result) = 2

RECURSIVE Supported(_)
\* The structure is a tensor, or a list, tuple, namedtuple or dict of
\* supported structures.
Supported(tensors) ==
  /\ tensors.type \in {"Tensor", "list", "tuple", "namedtuple", "dict"}
  /\ \A i \in 1..Len(tensors.items) : Supported(tensors.items[i])

RECURSIVE SameShape(_, _)
\* Same container kind at every level, same length and order, same keys.
SameShape(a, b) ==
  /\ a.type = b.type
  /\ a.keys = b.keys
  /\ Len(a.items) = Len(b.items)
  /\ \A i \in 1..Len(a.items) : SameShape(a.items[i], b.items[i])

\* Every leaf of the result is the tensor a splice of the call returned for
\* the tensor at the same place of the argument, one splice per leaf.
LeavesReplaced(call) ==
  LET old == LeafTensors(call.tensors)
      new == LeafTensors(call.result)
  IN  /\ Len(new) = Len(old)
      /\ Len(call.log) = Len(old)
      /\ \A i, j \in 1..Len(new) : i # j => new[i] # new[j]
      /\ \A i \in 1..Len(new) :
           \E k \in 1..Len(call.log) :
             /\ call.log[k].stage = "done"
             /\ call.log[k].tensor = old[i]
             /\ call.log[k].out = new[i]

\* C3: for every supported structure, subscribe returns a structure of the
\* same shape whose leaves are the pass-through tensors made for its leaves
\* (the side-effect functions themselves not raising; stated for the
\* interpreter whose dict has iteritems).
C3_ReturnsSameShape ==
  (hist # <<>> /\ ~py3 /\ Supported(Last.tensors) /\ NoFailingSideEffect(Last)) =>
    /\ Last.status = "returned"
    /\ SameShape(Last.tensors, Last.result)
    /\ LeavesReplaced(Last)

RECURSIVE Reach(_, _)
\* The ops reachable from the ops S along data and control inputs of g.
Reach(S, g) ==
  LET N == S \cup UNION {Range(g.inputs[n]) \cup Range(g.control_inputs[n]) : n \in S}
  IN  IF N = S THEN S ELSE Reach(N, g)

\* The transitive data/control prerequisites of op c in graph g.
Prerequisites(g, c) == Reach(Range(g.inputs[c]) \cup Range(g.control_inputs[c]), g)

\* Two calls subscribe(h, f), subscribe(h, g) on the same tensor, neither
\* function raising, and nothing called since.
TwoCallsOnSameTensor ==
  /\ Len(hist) = 2
  /\ hist[1].tensors.type = "Tensor"
  /\ hist[2].tensors = hist[1].tensors
  /\ NoFailingSideEffect(hist[1])
  /\ NoFailingSideEffect(hist[2])

\* C4: two calls on the same tensor h both return, each with a pass-through
\* op of its own that the call created, and every op that read h before the
\* first call then has the dependency ops of both calls among its
\* prerequisites.
C4_SecondCallAddsALayer ==
  TwoCallsOnSameTensor =>
    /\ hist[1].status = "returned"
    /\ hist[2].status = "returned"
    /\ LET h == hist[1].tensors.t
           p1 == hist[1].result.t
           p2 == hist[2].result.t
       IN  /\ p1 # p2
           /\ p1 > hist[1].pre.nops /\ p1 <= hist[2].pre.nops
           /\ p2 > hist[2].pre.nops
           /\ op_type[p1] = "Identity" /\ op_type[p2] = "Identity"
           /\ \A c \in ConsumersIn(hist[1].pre, h) :
                Range(hist[1].log[1].outs) \cup Range(hist[2].log[1].outs)
                  \subseteq Prerequisites(CurrentGraph, c)

\* Two calls on one tensor that had a consumer, each with a function that
\* returned a dependency op.
C4_Witness ==
  /\ TwoCallsOnSameTensor
  /\ ConsumersIn(hist[1].pre, hist[1].tensors.t) # {}
  /\ hist[1].status = "returned" /\ hist[1].log[1].outs # <<>>
  /\ hist[2].status = "returned" /\ hist[2].log[1].outs # <<>>

RECURSIVE Values(_)
\* Every value of a structure: the structure and the values inside it.
Values(tensors) ==
  {tensors} \cup UNION {Values(tensors.items[i]) : i \in 1..Len(tensors.items)}

\* The values of a structure whose type is not supported.
Unsupported(tensors) ==
  {v \in Values(tensors) : v.type \notin {"Tensor", "list", "tuple", "namedtuple", "dict"}}

\* C5: a call whose structure holds an unsupported value raises the
\* TypeError naming that value and its type, and returns nothing (the
\* side-effect functions themselves not raising; stated for the interpreter
\* whose dict has iteritems).
C5_UnsupportedRaisesTypeError ==
  (hist # <<>> /\ ~py3 /\ Unsupported(Last.tensors) # {} /\ NoFailingSideEffect(Last)) =>
    /\ Last.status = "raised"
    /\ Last.err.exc = "TypeError"
    /\ Last.err.value \in Unsupported(Last.tensors)
    /\ Last.err.vtype = Last.err.value.type
    /\ Last.result = NoneValue

\* The call raised in a side-effect function at its k-th splice.
FailedInSideEffectAt(call, k) ==
  /\ call.status = "raised"
  /\ k = Len(call.log)
  /\ k >= 1
  /\ call.log[k].stage = "side_effects"

\* The splice recorded as e is still in place in the current graph: every
\* captured consumer slot reads its pass-through tensor, every captured
\* control dependent holds the pass-through op and no longer the tensor's op.
StillSpliced(e) ==
  /\ e.stage = "done"
  /\ \A i \in 1..Len(e.update_input) :
       inputs[e.update_input[i][1]][e.update_input[i][2]] = e.out
  /\ \A d \in e.update_control_input :
       /\ tensor_op(e.out) \in Range(control_inputs[d])
       /\ tensor_op(e.tensor) \notin Range(control_inputs[d])

\* C6: when a side-effect function raises at leaf k, subscribe raises that
\* same exception and every leaf before k stays spliced.
C6_FailurePropagatesNoRollback ==
  \A k \in 1..Len(IF hist = <<>> THEN <<>> ELSE Last.log) :
    (hist # <<>> /\ FailedInSideEffectAt(Last, k)) =>
      /\ Last.err = SideEffectError(Last.applied[Last.log[k].invoked], Last.log[k].tensor)
      /\ Last.result = NoneValue
      /\ \A j \in 1..(k - 1) : StillSpliced(Last.log[j])

\* A function raised at the second leaf, after the first leaf, which had a
\* consumer and a control dependent, was spliced.
C6_Witness ==
  /\ hist # <<>>
  /\ FailedInSideEffectAt(Last, 2)
  /\ Last.log[1].update_input # <<>>
  /\ Last.log[1].update_control_input # {}

\* The side_effects argument is one function or a non-empty list.
OneOrMoreFunctions(call) ==
  call.side_effects.type = "function" \/ call.side_effects.items # <<>>

\* C8 as claimed: whatever the side_effects argument, the empty list
\* included, the list of functions applied to each leaf has length >= 1.
C8_AppliedNeverEmpty ==
  \A k \in 1..Len(hist) : \A j \in 1..Len(hist[k].log) :
    hist[k].log[j].stage = "done" =>
      Len(hist[k].applied) >= 1 /\ hist[k].log[j].invoked >= 1

\* C8 as amended: for one function or a non-empty list of functions the list
\* applied has length >= 1 and every completed splice invoked that many
\* functions; an empty list is applied as it is, with length 0.
C8_AppliedNonEmptyUnlessEmptyList ==
  \A k \in 1..Len(hist) :
    LET call == hist[k]
    IN  /\ OneOrMoreFunctions(call) => Len(call.applied) >= 1
        /\ ~OneOrMoreFunctions(call) => Len(call.applied) = 0
        /\ \A j \in 1..Len(call.log) :
             call.log[j].stage = "done" => call.log[j].invoked = Len(call.applied)

\* A call with a single function spliced a leaf, invoking one function.
C8_Witness ==
  /\ hist # <<>>
  /\ Last.side_effects.type = "function"
  /\ Last.log # <<>>
  /\ Last.log[1].stage = "done"
  /\ Last.log[1].invoked = 1

\* subscribe({a: h1, b: h2}, [f, g]) with h1 # h2, f and g each returning one
\* dependency op.
C9_Scenario ==
  /\ hist # <<>>
  /\ Last.tensors.type = "dict"
  /\ Last.tensors.keys = <<"a", "b">>
  /\ Last.tensors.items[1].type = "Tensor"
  /\ Last.tensors.items[2].type = "Tensor"
  /\ Last.tensors.items[1].t # Last.tensors.items[2].t
  /\ Last.side_effects = FunctionList(<<One, One>>)

\* The call returned a dict with keys a and b whose values are two distinct
\* pass-through tensors, each with n control inputs.
C9_ResultGatedOn(n) ==
  /\ Last.status = "returned"
  /\ Last.result.type = "dict"
  /\ Last.result.keys = <<"a", "b">>
  /\ Len(Last.result.items) = 2
  /\ \A i \in 1..2 :
       /\ Last.result.items[i].type = "Tensor"
       /\ Last.result.items[i].t > Last.pre.nops
       /\ op_type[Last.result.items[i].t] = "Identity"
       /\ inputs[Last.result.items[i].t] = <<Last.tensors.items[i].t>>
       /\ Cardinality(Range(control_inputs[Last.result.items[i].t])) = n
  /\ Last.result.items[1].t # Last.result.items[2].t

\* C9 as claimed: each of the two pass-through tensors is gated on four
\* dependency ops (stated for the interpreter whose dict has iteritems).
C9_FourDependenciesPerHandle == (C9_Scenario /\ ~py3) => C9_ResultGatedOn(4)

\* C9 as amended: where dict has iteritems (Python 2) each of the two
\* pass-through tensors is gated on two dependency ops, four over the whole
\* dict; on Python 3 the call raises AttributeError and leaves the graph as
\* it was.
C9_TwoDependenciesPerHandle ==
  C9_Scenario =>
    IF py3
    THEN /\ Last.status = "raised"
         /\ Last.err.exc = "AttributeError"
         /\ CurrentGraph = Last.pre
    ELSE /\ C9_ResultGatedOn(2)
         /\ Cardinality(Range(control_inputs[Last.result.items[1].t])
                        \cup Range(control_inputs[Last.result.items[2].t])) = 4

\* The scenario of C9 was run where dict has iteritems, and returned.
C9_Witness == C9_Scenario /\ ~py3 /\ Last.status = "returned"

\* C10: the pass-through op of every completed splice reads the spliced
\* tensor and nothing else, and its control inputs are exactly the ops the
\* side-effect functions returned for that tensor; one function returning one
\* op gives exactly one control input.
C10_GatedOnExactlyTheReturnedOps ==
  \A k \in 1..Len(hist) : \A j \in 1..Len(hist[k].log) :
    LET e == hist[k].log[j]
    IN  e.stage = "done" =>
          /\ e.post.op_type[e.out] = "Identity"
          /\ e.post.inputs[e.out] = <<e.tensor>>
          /\ Range(e.post.control_inputs[e.out]) = Range(e.outs)
          /\ Len(e.post.control_inputs[e.out]) = Cardinality(Range(e.outs))
          /\ Len(hist[k].applied) = 1 => Len(e.post.control_inputs[e.out]) = 1
          /\ (k = Len(hist) /\ j = Len(hist[k].log)) => e.post = CurrentGraph

\* A splice completed for a tensor that had a consumer, with two functions.
C10_Witness ==
  /\ hist # <<>>
  /\ Last.log # <<>>
  /\ Last.log[1].stage = "done"
  /\ Last.log[1].update_input # <<>>
  /\ Len(Last.log[1].outs) = 2

\* The graph the j-th splice of a call started from: the graph the call was
\* made on, or the graph the splice before it left.
PreOf(call, j) == IF j = 1 THEN call.pre ELSE call.log[j - 1].post

\* C11: a call over a supported structure splices every leaf and completes,
\* a repeated tensor included: at every splice, each op the call's cache gave
\* as a dependent of the tensor's op still holds that op as a control input
\* when lines 128-130 come to remove it (the side-effect functions themselves
\* not raising; stated for the interpreter whose dict has iteritems).
C11_SharedIndexDependentsStillHeld ==
  \A k \in 1..Len(hist) :
    LET call == hist[k]
    IN  (~py3 /\ Supported(call.tensors) /\ NoFailingSideEffect(call)) =>
          /\ call.status = "returned"
          /\ Len(call.log) = Len(LeafTensors(call.tensors))
          /\ \A j \in 1..Len(call.log) :
               /\ call.log[j].stage = "done"
               /\ call.log[j].update_control_input
                    \subseteq DependentsIn(PreOf(call, j), tensor_op(call.log[j].tensor))

\* C12: after subscribe(h, f) returned p1 and subscribe(h, g) returned p2, the
\* dependency ops of f and of g are all prerequisites of p1 and all
\* prerequisites of p2.
C12_BothHandlesRunBothSideEffects ==
  (TwoCallsOnSameTensor /\ hist[1].status = "returned" /\ hist[2].status = "returned") =>
    LET p1 == hist[1].result.t
        p2 == hist[2].result.t
        deps == Range(hist[1].log[1].outs) \cup Range(hist[2].log[1].outs)
    IN  /\ deps \subseteq Prerequisites(CurrentGraph, tensor_op(p1))
        /\ deps \subseteq Prerequisites(CurrentGraph, tensor_op(p2))

\* C13: on the cache of one call, queried once per splice with the splices in
\* between, the graph is scanned once, at the first query, and at no later
\* query.
C13_ScannedOnceAtFirstQuery ==
  \A k \in 1..Len(hist) :
    LET call == hist[k]
    IN  /\ call.nscan <= 1
        /\ call.log # <<>> => call.nscan = 1
        /\ \A j \in 1..Len(call.log) : call.log[j].scanned <=> j = 1

\* A call queried its cache twice, with a completed splice in between.
C13_Witness ==
  /\ hist # <<>>
  /\ Len(Last.log) = 2
  /\ Last.log[1].stage = "done"
  /\ Last.log[2].stage = "done"

\* C14: the answers of a call's cache are those of the graph at its first
\* query: every splice of the call gets the dependents its tensor's op had
\* before the first splice, and the map the call leaves gives every op of the
\* graph the dependents it had then, whatever the splices changed or added.
C14_AnswersFrozenAtFirstQuery ==
  \A k \in 1..Len(hist) :
    LET call == hist[k]
    IN  call.log # <<>> =>
          /\ \A j \in 1..Len(call.log) :
               call.log[j].update_control_input
                 = DependentsIn(PreOf(call, 1), tensor_op(call.log[j].tensor))
          /\ \A n \in 1..nops :
               dict_get(call.cache[DefaultGraph], n) = DependentsIn(PreOf(call, 1), n)

\* The second splice of a call was answered from the cache with dependents
\* that the first splice had already rewired.
C14_Witness ==
  /\ hist # <<>>
  /\ Len(Last.log) = 2
  /\ Last.log[2].update_control_input # {}
  /\ Last.log[2].update_control_input
       # DependentsIn(PreOf(Last, 2), tensor_op(Last.log[2].tensor))

\* C15: every call scans the graph at its own first query, as the graph is
\* when the call is made: its first splice gets the dependents of that graph,
\* the control inputs rewired by the calls before it included.
C15_IndexBuiltPerCall ==
  \A k \in 1..Len(hist) :
    LET call == hist[k]
    IN  call.log # <<>> =>
          /\ call.log[1].scanned
          /\ call.log[1].update_control_input
               = DependentsIn(call.pre, tensor_op(call.log[1].tensor))
          /\ k > 1 =>
               LET e == hist[k - 1].log[Len(hist[k - 1].log)]
               IN  (hist[k - 1].log # <<>> /\ e.stage = "done") =>
                     /\ call.pre = e.post
                     /\ \A d \in e.update_control_input :
                          /\ d \in dict_get(call.cache[DefaultGraph], tensor_op(e.out))
                          /\ d \notin dict_get(call.cache[DefaultGraph], tensor_op(e.tensor))

\* A second call spliced the tensor the first call returned, and its cache
\* gave it the dependent that the first call had rewired to that tensor.
C15_Witness ==
  /\ Len(hist) = 2
  /\ hist[1].status = "returned"
  /\ hist[1].log[1].update_control_input # {}
  /\ hist[2].tensors = hist[1].result
  /\ hist[2].status = "returned"
  /\ hist[2].log[1].update_control_input = hist[1].log[1].update_control_input

\* The ops a call's j-th splice built: those of the graph it left that the
\* graph it started from did not have.
BuiltBy(call, j) == (PreOf(call, j).nops + 1)..call.log[j].post.nops

\* C16: the consumers a splice rewires are those the tensor had when the
\* splice began, before any function ran and before the pass-through op
\* existed: every op the splice built still reads the tensor when the splice
\* is done, and the pass-through op does not read its own output.
C16_ConsumersCapturedBeforeBuilding ==
  \A k \in 1..Len(hist) : \A j \in 1..Len(hist[k].log) :
    LET call == hist[k]
        e == call.log[j]
    IN  e.stage = "done" =>
          /\ {e.update_input[i][1] : i \in 1..Len(e.update_input)}
               = ConsumersIn(PreOf(call, j), e.tensor)
          /\ \A n \in BuiltBy(call, j) : e.post.inputs[n] = <<e.tensor>>
          /\ tensor_op(e.out) \in BuiltBy(call, j)
          /\ e.out \notin Range(e.post.inputs[tensor_op(e.out)])

\* A splice completed for a tensor that had a consumer, with a function that
\* built an op reading the tensor.
C16_Witness ==
  /\ hist # <<>>
  /\ Last.log # <<>>
  /\ Last.log[1].stage = "done"
  /\ Last.log[1].update_input # <<>>
  /\ Last.log[1].outs # <<>>
  /\ Last.log[1].post.inputs[Last.log[1].outs[1]] = <<Last.log[1].tensor>>

\* The graph a call left.
PostOf(call) == IF call.log = <<>> THEN call.pre ELSE call.log[Len(call.log)].post

\* The tensors a call spliced, in the order of the splices.
Spliced(call) == [j \in 1..Len(call.log) |-> call.log[j].tensor]

\* C17: a call that returns, on a structure with n leaf occurrences and with
\* k functions, made n splices, one per occurrence, and built n pass-through
\* ops and nothing but them and the functions' ops; each splice invoked the k
\* functions once each, in the order given, every one on the leaf tensor of
\* the structure (the i-th op built reads it and is of the i-th function's
\* kind).
C17_OnePassThroughAndOneInvocationPerLeaf ==
  \A c \in 1..Len(hist) :
    LET call == hist[c]
        leaves == LeafTensors(call.tensors)
        n == Len(leaves)
        k == Len(call.applied)
        built == (call.pre.nops + 1)..PostOf(call).nops
    IN  call.status = "returned" =>
          /\ Len(call.log) = n
          /\ \A t \in 1..PostOf(call).nops : Count(Spliced(call), t) = Count(leaves, t)
          /\ Cardinality({o \in built : PostOf(call).op_type[o] = "Identity"}) = n
          /\ Cardinality(built) = n * (k + 1)
          /\ \A j \in 1..n :
               LET e == call.log[j]
               IN  /\ e.stage = "done"
                   /\ e.invoked = k
                   /\ Len(e.outs) = k
                   /\ e.tensor <= call.pre.nops
                   /\ \A i \in 1..k :
                        /\ e.outs[i] = PreOf(call, j).nops + i
                        /\ e.post.op_type[e.outs[i]] = built_type(call.applied[i])
                        /\ e.post.inputs[e.outs[i]] = <<e.tensor>>
                   /\ e.out = PreOf(call, j).nops + k + 1

\* A call with two different functions returned on a structure holding the
\* same tensor twice.
C17_Witness ==
  /\ hist # <<>>
  /\ Last.status = "returned"
  /\ Last.applied = <<Summary, One>>
  /\ Len(LeafTensors(Last.tensors)) = 2
  /\ LeafTensors(Last.tensors)[1] = LeafTensors(Last.tensors)[2]

\* C18: a splice of tensor h leaves the rest of the graph it started from as
\* it was: every op is still there with its type and its number of inputs,
\* h's op keeps its inputs and control inputs, every slot that did not read h
\* reads what it read, and every op that did not hold h's op as a control
\* input keeps its control inputs.
C18_SpliceLeavesTheRestUnchanged ==
  \A k \in 1..Len(hist) : \A j \in 1..Len(hist[k].log) :
    LET e == hist[k].log[j]
        pre == PreOf(hist[k], j)
        h == e.tensor
    IN  /\ e.post.nops >= pre.nops
        /\ e.post.inputs[tensor_op(h)] = pre.inputs[tensor_op(h)]
        /\ e.post.control_inputs[tensor_op(h)] = pre.control_inputs[tensor_op(h)]
        /\ \A n \in 1..pre.nops :
             /\ e.post.op_type[n] = pre.op_type[n]
             /\ Len(e.post.inputs[n]) = Len(pre.inputs[n])
             /\ \A i \in 1..Len(pre.inputs[n]) :
                  pre.inputs[n][i] # h => e.post.inputs[n][i] = pre.inputs[n][i]
             /\ tensor_op(h) \notin Range(pre.control_inputs[n])
                  => e.post.control_inputs[n] = pre.control_inputs[n]

\* A splice completed for a tensor whose op has a control input and whose
\* consumer reads another tensor on another slot.
C18_Witness ==
  /\ hist # <<>>
  /\ Last.log # <<>>
  /\ Last.log[1].stage = "done"
  /\ Last.pre.control_inputs[tensor_op(Last.log[1].tensor)] # <<>>
  /\ \E c \in ConsumersIn(Last.pre, Last.log[1].tensor) :
       \E i \in 1..Len(Last.pre.inputs[c]) :
         /\ Last.pre.inputs[c][i] # Last.log[1].tensor
         /\ inputs[c][i] = Last.pre.inputs[c][i]

\* No op of graph g is among its own prerequisites.
Acyclic(g) == \A n \in 1..g.nops : n \notin Prerequisites(g, n)

\* C19: the graph, data inputs and control inputs together, is acyclic after
\* every splice and after every sequence of calls (the graph a caller builds
\* is acyclic, and the functions build new ops that read the tensor they are
\* given).
C19_GraphStaysAcyclic ==
  /\ Acyclic(CurrentGraph)
  /\ hist # <<>> => \A j \in 1..Len(Last.log) : Acyclic(Last.log[j].post)

\* Two calls returned on the same tensor, which had a consumer and a control
\* dependent, each with a function that built an op.
C19_Witness ==
  /\ TwoCallsOnSameTensor
  /\ hist[1].status = "returned"
  /\ hist[2].status = "returned"
  /\ hist[1].log[1].update_input # <<>>
  /\ hist[1].log[1].update_control_input # {}
  /\ hist[1].log[1].outs # <<>>
  /\ hist[2].log[1].outs # <<>>

\* C20: when a function raises during the splice of tensor h, nothing of the
\* graph the splice started from has been rewritten: every op has the inputs
\* and control inputs it had (h's consumers read h, the dependents of h's op
\* hold it), no pass-through op was built for h, and the call made no splice
\* after this one.
C20_NothingRewiredWhenAFunctionRaises ==
  \A c \in 1..Len(hist) : \A k \in 1..Len(hist[c].log) :
    LET call == hist[c]
        e == call.log[k]
        pre == PreOf(call, k)
    IN  FailedInSideEffectAt(call, k) =>
          /\ \A n \in 1..pre.nops :
               /\ e.post.op_type[n] = pre.op_type[n]
               /\ e.post.inputs[n] = pre.inputs[n]
               /\ e.post.control_inputs[n] = pre.control_inputs[n]
          /\ ConsumersIn(pre, e.tensor) \subseteq ConsumersIn(e.post, e.tensor)
          /\ DependentsIn(e.post, tensor_op(e.tensor))
               = DependentsIn(pre, tensor_op(e.tensor))
          /\ \A n \in BuiltBy(call, k) : e.post.op_type[n] # "Identity"
          /\ PostOf(call) = e.post
          /\ c = Len(hist) => CurrentGraph = e.post

\* A function raised at the first of two leaves, after another function had
\* built an op, on a tensor that had a consumer.
C20_Witness ==
  /\ hist # <<>>
  /\ FailedInSideEffectAt(Last, 1)
  /\ Len(LeafTensors(Last.tensors)) = 2
  /\ Last.log[1].invoked = 2
  /\ Last.log[1].outs # <<>>
  /\ Last.log[1].update_input # <<>>

====
